---- MODULE Spec2Model ----
(***************************************************************************)
(* Resumable feature extraction of tools/extract.py: key derivation        *)
(* (get_key_parser), the resume planner of inference_pytorch, and the       *)
(* extraction loop of single_gpu_extract writing to an HDF5 store.          *)
(*                                                                         *)
(* A path is a sequence of one-character strings, so that the os.path      *)
(* functions are computed character by character as the library does.      *)
(***************************************************************************)
EXTENDS Integers, Sequences, FiniteSets, TLC

VARIABLES
    dataset,         \* args.dataset, the convention name
    launcher,        \* args.launcher
    videos_per_gpu,  \* the batch size the data loader is built with
    data_prefix,     \* directory the dataset joins in front of each manifest token
    ann,             \* lines of the manifest cfg.data.test.ann_file names at start
    fileExists,      \* osp.isfile(args.output)
    disk,            \* entries of the store file that are on disk (key -> value)
    filteredExists,  \* the file /tmp/filtered_<basename> exists
    filtered,        \* lines of /tmp/filtered_<basename>
    pc,              \* position of the running process; "idle" when none runs
    ann_file,        \* cfg.data.test.ann_file of the process: "orig" or "filtered"
    report,          \* <<remaining, all_len>> printed by the planner
    stream,          \* items the data loader has not yet delivered
    fd,              \* entries seen through the open h5py handle (disk + unflushed)
    prog_bar,        \* [task_num, completed] of mmcv.ProgressBar
    exit,            \* how the last process ended
    warning,         \* the warning get_key_parser printed last
    arg,             \* a path given to the key parser on its own
    derived,         \* the key the parser returned for arg
    runs,            \* number of processes started so far
    preRun,          \* history: disk when the current/last process started
    preExit,         \* history: exit of the process before the current/last one
    prePreRun,       \* history: disk when that earlier process started
    preWritten,      \* history: number of entries that earlier process created
    invoked,         \* history: items the model returned a result for, this process
    written,         \* history: keys passed to create_dataset, this process
    calls,           \* history: per manifest path, model results computed over all runs
    attempted,       \* history: items the model was invoked on, this process
    preFailed,       \* history: item the previous process's model raised on
    edited,          \* history: the user removed entries since the last process ended
    deleted,         \* history: keys the user removed before the current/last process
    snapshot,        \* history: disk just before that removal
    removed          \* history: every key the user has removed so far

vars == <<dataset, videos_per_gpu, data_prefix, ann, fileExists, disk,
          filteredExists, filtered, pc, ann_file, report, stream, fd, prog_bar,
          exit, runs, preRun, preExit, invoked, written, calls, attempted,
          preFailed, edited, deleted, snapshot, prePreRun, preWritten, removed,
          launcher, warning, arg, derived>>

cfgVars == <<dataset, launcher, videos_per_gpu, data_prefix, ann>>
storeVars == <<fileExists, disk>>
tmpVars == <<filteredExists, filtered>>
editVars == <<edited, deleted, snapshot, removed>>
preVars == <<preRun, preExit, prePreRun, preWritten, preFailed>>
parserVars == <<warning, arg, derived>>

----------------------------------------------------------------------------
(* Bounds *)

MaxLines == 3       \* longest manifest
MaxRuns == 2        \* processes started in one behaviour
MaxPathLen == 4     \* longest path given to the key parser on its own
MaxBatch == 2       \* largest cfg.data.videos_per_gpu
MaxOtherLines == 1  \* longest manifest of a second invocation

----------------------------------------------------------------------------
(* Paths and the os.path functions used by get_key_parser *)

sep == "/"

\* "v_a.m", "d/v_a.m", "w_a.m", "d.x/v_b": the first two have the same base
\* name, the first three the same base name once two characters are dropped
Paths ==
    { <<"v", "_", "a", ".", "m">>,
      <<"d", "/", "v", "_", "a", ".", "m">>,
      <<"w", "_", "a", ".", "m">>,
      <<"d", ".", "x", "/", "v", "_", "b">> }

\* str.rfind(c) + 1: the last position of c in s, 0 when absent
rfind(s, c) ==
    LET hits == {i \in 1..Len(s) : s[i] = c}
    IN  IF hits = {} THEN 0 ELSE CHOOSE i \in hits : \A j \in hits : j <= i

\* s[n:] of Python
DropFirst(s, n) == IF n >= Len(s) THEN <<>> ELSE SubSeq(s, n + 1, Len(s))

\* osp.basename(f): what follows the last separator
basename(f) == DropFirst(f, rfind(f, sep))

\* osp.splitext(f)[0]: cut at the last dot when it lies after the last
\* separator and some character between them is not a dot
splitext0(f) ==
    LET sepIndex == rfind(f, sep)
        dotIndex == rfind(f, ".")
    IN  IF /\ dotIndex > sepIndex
           /\ \E i \in (sepIndex + 1)..(dotIndex - 1) : f[i] # "."
        THEN SubSeq(f, 1, dotIndex - 1)
        ELSE f

\* s.split(os.sep): the segments between separators, scanning s from the left
split(s) ==
    LET acc[i \in 0..Len(s)] ==
            IF i = 0 THEN << <<>> >>
            ELSE IF s[i] = sep THEN Append(acc[i - 1], <<>>)
            ELSE [acc[i - 1] EXCEPT ![Len(acc[i - 1])] = Append(@, s[i])]
    IN  acc[Len(s)]

\* os.sep.join(parts)
join(parts) ==
    LET acc[n \in 0..Len(parts)] ==
            IF n = 0 THEN <<>>
            ELSE IF n = 1 THEN parts[1]
            ELSE acc[n - 1] \o <<sep>> \o parts[n]
    IN  acc[Len(parts)]

\* parts[-2:]
LastTwo(parts) ==
    IF Len(parts) <= 2 THEN parts ELSE SubSeq(parts, Len(parts) - 1, Len(parts))

\* the base name kept with its extension
default_keepext(f) == basename(f)

default(f) == splitext0(basename(f))
webvid(f) == join(LastTwo(split(splitext0(f))))
anetqa(f) == DropFirst(splitext0(basename(f)), 2)

\* get_key_parser(d)(f)
get_key_parser(d, f) ==
    IF d = "webvid" THEN webvid(f)
    ELSE IF d = "anetqa" THEN anetqa(f)
    ELSE default(f)

\* get_key_parser printing nothing
ParserWarning_silent(d) == "none"

\* what get_key_parser(d) prints before it returns the parser
ParserWarning(d) ==
    IF d \in {"webvid", "anetqa"} THEN "none"
    ELSE IF d # "" THEN "not supported"
    ELSE "no name"

\* key_parser = get_key_parser(args.dataset)
key_parser(f) == get_key_parser(dataset, f)

----------------------------------------------------------------------------
(* The manifest, the dataset and the model *)

\* a manifest line "<path> <label>", as the tokens l.split() gives
Lines == {<<p, <<"0">>>> : p \in Paths}

\* l.split()[0]
Token(l) == l[1]

\* osp.join(data_prefix, name), as the dataset does for each line
osp_join(a, b) ==
    IF Len(b) > 0 /\ b[1] = sep THEN b
    ELSE IF Len(a) = 0 \/ a[Len(a)] = sep THEN a \o b
    ELSE a \o <<sep>> \o b

\* the 'filename' the dataset reports for a manifest line
Filename(l) == osp_join(data_prefix, Token(l))

\* build_dataset(cfg.data.test): one item per line of the manifest, in order
build_dataset(lines) == [i \in 1..Len(lines) |-> Filename(lines[i])]

\* a loader that delivers the items of the dataset last first
build_dataloader_reversed(items) ==
    [i \in 1..Len(items) |-> items[Len(items) + 1 - i]]

\* build_dataloader(dataset, shuffle=False, ...): the loader delivers the
\* items in the order of the dataset
build_dataloader(items) == [i \in 1..Len(items) |-> items[i]]

Min(a, b) == IF a <= b THEN a ELSE b

\* the next batch the data loader delivers (shuffle=False)
NextBatch(s) == SubSeq(s, 1, Min(videos_per_gpu, Len(s)))

\* model(return_loss=False, **data): one row per item of the batch
model(batch) == [rows |-> Len(batch), data |-> batch]

\* result.squeeze(0): drops the batch dimension when it has size 1
squeeze0(r) == IF r.rows = 1 THEN [rows |-> 0, data |-> r.data] ELSE r

\* an entry written by an earlier use of the store file
OldResult == [rows |-> 0, data |-> <<<<"o">>>>]

----------------------------------------------------------------------------
(* The store: an h5py.File as a key -> value map *)

EmptyStore == [k \in {} |-> OldResult]

\* key in f
Contains(f, key) == key \in DOMAIN f

\* f.create_dataset(key, data=value) on a key that is absent
create_dataset(f, key, value) ==
    [k \in DOMAIN f \cup {key} |-> IF k = key THEN value ELSE f[k]]

Restrict(f, S) == [k \in S |-> f[k]]

\* the store opened without `with`: an exception leaves it unclosed
with_exit_unclosed(flushed, handle) == flushed

\* the store opened in mode 'w': the file is truncated
open_truncate(flushed) == EmptyStore

\* h5py.File(output, 'a'): the handle shows the entries on disk
open_append(flushed) == flushed

\* leaving `with h5py.File(...) as fd`, normally or by an exception: the file
\* is closed and every entry of the handle is on disk
with_exit(flushed, handle) == handle

\* what a killed writer can leave on disk: the flushed entries and any of
\* the entries created since, none of which was flushed
AfterKill(flushed, handle) ==
    {Restrict(handle, (DOMAIN flushed \cap DOMAIN handle) \cup S) :
        S \in SUBSET (DOMAIN handle \ DOMAIN flushed)}

----------------------------------------------------------------------------
(* inference_pytorch: the resume planner *)

\* the planner run whether or not the store file is there
Resuming_always == TRUE

\* osp.isfile(args.output)
Resuming == fileExists

\* the `not` of the filter left out: the lines already stored are kept
Residual_kept(vidlist, f) ==
    SelectSeq(vidlist, LAMBDA l : Contains(f, key_parser(Token(l))))

\* the planner deriving keys by base name whatever the convention
Residual_drift(vidlist, f) ==
    SelectSeq(vidlist, LAMBDA l : ~Contains(f, default(Token(l))))

\* [l for l in vidlist if not key_parser(l.split()[0]) in f]
Residual(vidlist, f) ==
    SelectSeq(vidlist, LAMBDA l : ~Contains(f, key_parser(Token(l))))

\* the skip check left out: every item is computed
NeedsCompute_always(f, vid_key) == TRUE

\* the skip check inverted: only items already stored are computed
NeedsCompute_inverted(f, vid_key) == Contains(f, vid_key)

\* single_gpu_extract: vid_key not in fd
NeedsCompute(f, vid_key) == ~Contains(f, vid_key)

----------------------------------------------------------------------------
(* Initial states *)

\* values of --dataset: none given, and the two named conventions
Conventions == {"", "webvid", "anetqa"}

Range(s) == {s[i] : i \in DOMAIN s}

\* manifests: up to MaxLines distinct lines, in any order
RECURSIVE SeqsNoRepeat(_, _)
SeqsNoRepeat(S, n) ==
    IF n = 0 THEN {<<>>}
    ELSE LET shorter == SeqsNoRepeat(S, n - 1)
         IN  shorter \cup
             {Append(s, x) : s \in shorter, x \in S}

Manifests == {m \in SeqsNoRepeat(Lines, MaxLines) : Cardinality(Range(m)) = Len(m)}

\* store files found at start: none, an empty one, or one holding an entry
\* under the key of a manifest line
InitStores(d, m) ==
    {EmptyStore} \cup
    {create_dataset(EmptyStore, get_key_parser(d, Token(m[i])), OldResult) :
        i \in 1..Len(m)}

Init ==
    /\ dataset \in Conventions
    /\ launcher = "none"
    /\ warning = "none"
    /\ arg = <<>>
    /\ derived = <<>>
    /\ videos_per_gpu = 1
    /\ data_prefix = <<>>
    /\ ann \in Manifests
    /\ fileExists \in BOOLEAN
    /\ disk \in (IF fileExists THEN InitStores(dataset, ann) ELSE {EmptyStore})
    /\ filteredExists = FALSE
    /\ filtered = <<>>
    /\ pc = "idle"
    /\ ann_file = "orig"
    /\ report = <<>>
    /\ stream = <<>>
    /\ fd = EmptyStore
    /\ prog_bar = [task_num |-> 0, completed |-> 0]
    /\ exit = "none"
    /\ runs = 0
    /\ preRun = EmptyStore
    /\ preExit = "none"
    /\ invoked = <<>>
    /\ written = <<>>
    /\ calls = [p \in {Filename(l) : l \in Lines} |-> 0]
    /\ attempted = <<>>
    /\ preFailed = <<>>
    /\ edited = FALSE
    /\ deleted = {}
    /\ snapshot = EmptyStore
    /\ removed = {}
    /\ prePreRun = EmptyStore
    /\ preWritten = 0

----------------------------------------------------------------------------
(* Actions *)

\* inference_pytorch, lines 145-159: a new process derives its key parser
\* and plans its work list
Plan ==
    /\ pc = "idle"
    /\ runs < MaxRuns
    /\ runs' = runs + 1
    /\ pc' = "planned"
    /\ IF Resuming
       THEN /\ filtered' = Residual(ann, disk)
            /\ report' = <<Len(filtered'), Len(ann)>>
            /\ filteredExists' = TRUE
            /\ ann_file' = "filtered"
       ELSE /\ ann_file' = "orig"
            /\ report' = <<>>
            /\ UNCHANGED tmpVars
    /\ preRun' = disk
    /\ preExit' = exit
    /\ prePreRun' = preRun
    /\ preWritten' = Len(written)
    /\ preFailed' = IF exit = "InferenceError" THEN <<stream[1]>> ELSE <<>>
    /\ exit' = "running"
    /\ invoked' = <<>>
    /\ written' = <<>>
    /\ attempted' = <<>>
    /\ edited' = FALSE
    /\ deleted' = IF edited THEN deleted ELSE {}
    /\ snapshot' = IF edited THEN snapshot ELSE EmptyStore
    /\ stream' = <<>>
    /\ prog_bar' = [task_num |-> 0, completed |-> 0]
    /\ warning' = ParserWarning(dataset)
    /\ UNCHANGED <<cfgVars, storeVars, fd, calls, removed, arg, derived>>

\* inference_pytorch, lines 161-169: the dataset and loader over ann_file
Build ==
    /\ pc = "planned"
    /\ pc' = "built"
    /\ stream' = build_dataloader(
                      build_dataset(IF ann_file = "filtered" THEN filtered ELSE ann))
    /\ UNCHANGED <<cfgVars, storeVars, tmpVars, ann_file, report, fd, prog_bar,
                   exit, runs, invoked, written, calls, attempted,
                   preVars, editVars, parserVars>>

\* the launcher ignored: every run extracts in this process
distributed_never == FALSE

\* main, lines 203-206
distributed == launcher # "none"

\* single_gpu_extract, lines 91-95: progress bar, store opened in mode 'a'
Open ==
    /\ pc = "built"
    /\ ~distributed
    /\ pc' = "loop"
    /\ prog_bar' = [task_num |-> Len(stream), completed |-> 0]
    /\ fileExists' = TRUE
    /\ fd' = open_append(disk)
    /\ UNCHANGED <<cfgVars, disk, tmpVars, ann_file, report, stream,
                   exit, runs, invoked, written, calls, attempted,
                   preVars, editVars, parserVars>>

\* lines 96-98 and 106: the key is in the store, the batch is skipped
Skip ==
    /\ pc = "loop"
    /\ stream # <<>>
    /\ LET data == NextBatch(stream)
           vid_key == key_parser(data[1])
       IN  /\ ~NeedsCompute(fd, vid_key)
           /\ stream' = DropFirst(stream, Len(data))
    /\ prog_bar' = [prog_bar EXCEPT !.completed = @ + 1]
    /\ UNCHANGED <<cfgVars, storeVars, tmpVars, pc, ann_file, report, fd,
                   exit, runs, invoked, written, calls, attempted,
                   preVars, editVars, parserVars>>

\* lines 96-106: the model returns and its result is stored under the key
\* (create_dataset raises when the name exists, which ends the process)
Compute ==
    /\ pc = "loop"
    /\ stream # <<>>
    /\ LET data == NextBatch(stream)
           vid_key == key_parser(data[1])
           result == model(data)
       IN  /\ NeedsCompute(fd, vid_key)
           /\ attempted' = attempted \o data
           /\ invoked' = invoked \o data
           /\ calls' = [p \in DOMAIN calls |->
                          calls[p] + Cardinality({i \in 1..Len(data) : data[i] = p})]
           /\ IF Contains(fd, vid_key)
              THEN /\ pc' = "idle"
                   /\ exit' = "ValueError"
                   /\ disk' = with_exit(disk, fd)
                   /\ UNCHANGED <<fd, written, stream, prog_bar>>
              ELSE /\ fd' = create_dataset(fd, vid_key, squeeze0(result))
                   /\ written' = Append(written, vid_key)
                   /\ stream' = DropFirst(stream, Len(data))
                   /\ prog_bar' = [prog_bar EXCEPT !.completed = @ + 1]
                   /\ UNCHANGED <<pc, exit, disk>>
    /\ UNCHANGED <<cfgVars, fileExists, tmpVars, ann_file, report,
                   runs, preVars, editVars, parserVars>>

\* line 101 raises: nothing catches it, the with block closes the store
Fail ==
    /\ pc = "loop"
    /\ stream # <<>>
    /\ LET data == NextBatch(stream)
           vid_key == key_parser(data[1])
       IN  /\ NeedsCompute(fd, vid_key)
           /\ attempted' = attempted \o data
    /\ disk' = with_exit(disk, fd)
    /\ pc' = "idle"
    /\ exit' = "InferenceError"
    /\ UNCHANGED <<cfgVars, fileExists, tmpVars, ann_file, report, stream, fd,
                   prog_bar, runs, invoked, written, calls, preVars, editVars, parserVars>>

\* line 95, leaving the with block after the last batch: the store is closed
Close ==
    /\ pc = "loop"
    /\ stream = <<>>
    /\ disk' = with_exit(disk, fd)
    /\ pc' = "idle"
    /\ exit' = "ok"
    /\ UNCHANGED <<cfgVars, fileExists, tmpVars, ann_file, report, stream, fd,
                   prog_bar, runs, invoked, written, calls, attempted,
                   preVars, editVars, parserVars>>

\* the process is killed: no handler runs, unflushed entries may be lost
Kill ==
    /\ pc \in {"planned", "built", "loop"}
    /\ pc' = "idle"
    /\ exit' = "killed"
    /\ disk' \in (IF pc = "loop" THEN AfterKill(disk, fd) ELSE {disk})
    /\ UNCHANGED <<cfgVars, fileExists, tmpVars, ann_file, report, stream, fd,
                   prog_bar, runs, invoked, written, calls, attempted,
                   preVars, editVars, parserVars>>

\* between two runs the user removes entries from a completed store
Delete ==
    /\ pc = "idle"
    /\ exit = "ok"
    /\ ~edited
    /\ \E D \in SUBSET (DOMAIN disk) \ {{}} :
          /\ deleted' = D
          /\ snapshot' = disk
          /\ removed' = removed \cup D
          /\ disk' = Restrict(disk, DOMAIN disk \ D)
    /\ edited' = TRUE
    /\ UNCHANGED <<cfgVars, fileExists, tmpVars, pc, ann_file, report, stream, fd,
                   prog_bar, exit, runs, invoked, written, calls, attempted,
                   preVars, parserVars>>

Next ==
    \/ Plan
    \/ Build
    \/ Open
    \/ Skip
    \/ Compute
    \/ Fail
    \/ Close
    \/ Kill
    \/ Delete

Spec == Init /\ [][Next]_vars

\* the steps of a process, and the start of the next one
Progress == Plan \/ Build \/ Open \/ Skip \/ Compute \/ Close

\* what a step of Progress does to the position of the process: a process is
\* started, or the running one moves on to the dataset, to the loop, past one
\* batch, or out of the loop
position == <<pc, runs, exit, prog_bar>>
Advance ==
    \/ /\ pc = "idle" /\ runs < MaxRuns
       /\ pc' = "planned" /\ runs' = runs + 1 /\ exit' = "running"
       /\ prog_bar' = [task_num |-> 0, completed |-> 0]
    \/ /\ pc = "planned"
       /\ pc' = "built" /\ UNCHANGED <<runs, exit, prog_bar>>
    \/ /\ pc = "built" /\ ~distributed
       /\ pc' = "loop" /\ UNCHANGED <<runs, exit>>
       /\ prog_bar' = [task_num |-> Len(stream), completed |-> 0]
    \/ /\ pc = "loop" /\ stream # <<>>
       /\ prog_bar' = [prog_bar EXCEPT !.completed = @ + 1]
       /\ UNCHANGED <<pc, runs, exit>>
    \/ /\ pc = "loop" /\ stream = <<>>
       /\ pc' = "idle" /\ exit' = "ok" /\ UNCHANGED <<runs, prog_bar>>

\* the steps that satisfy Advance are the steps of Progress
AdvanceIsProgress == [][Progress <=> <<Advance>>_position]_vars

\* interruptions after which the pipeline is run again
KillThenRerun == runs < MaxRuns /\ Kill
FailThenRerun == runs < MaxRuns /\ Fail

LiveNext ==
    \/ Plan
    \/ Build
    \/ Open
    \/ Skip
    \/ Compute
    \/ Close
    \/ KillThenRerun
    \/ FailThenRerun

\* runs of the pipeline on one manifest and one store that nobody edits: a
\* started process keeps running (the loop blocks on nothing but the model
\* and the store, which return), the pipeline is run again after each
\* interruption, and the last of the MaxRuns runs is not interrupted
LiveSpec == Init /\ [][LiveNext]_vars /\ WF_position(Advance)

----------------------------------------------------------------------------
(* Runs under other configurations: launcher, batch size, data prefix *)

\* no process has run yet
Fresh ==
    /\ filteredExists = FALSE
    /\ filtered = <<>>
    /\ pc = "idle"
    /\ ann_file = "orig"
    /\ report = <<>>
    /\ stream = <<>>
    /\ fd = EmptyStore
    /\ prog_bar = [task_num |-> 0, completed |-> 0]
    /\ exit = "none"
    /\ warning = "none"
    /\ runs = 0
    /\ preRun = EmptyStore
    /\ preExit = "none"
    /\ invoked = <<>>
    /\ written = <<>>
    /\ calls = [p \in {Filename(l) : l \in Lines} |-> 0]
    /\ attempted = <<>>
    /\ preFailed = <<>>
    /\ edited = FALSE
    /\ deleted = {}
    /\ snapshot = EmptyStore
    /\ removed = {}
    /\ prePreRun = EmptyStore
    /\ preWritten = 0

\* choices of --launcher
Launchers == {"none", "pytorch", "slurm", "mpi"}

\* cfg.data.test.data_prefix: none, or the directory "r"
Prefixes == {<<>>, <<"r">>}

\* store files found at start, their entries under the keys the loop derives
CfgStores(m) ==
    {EmptyStore} \cup
    {create_dataset(EmptyStore, key_parser(Filename(m[i])), OldResult) :
        i \in 1..Len(m)}

InitCfg ==
    /\ dataset \in Conventions
    /\ launcher \in Launchers
    /\ videos_per_gpu \in 1..MaxBatch
    /\ data_prefix \in Prefixes
    /\ ann \in Manifests
    /\ fileExists \in BOOLEAN
    /\ disk \in (IF fileExists THEN CfgStores(ann) ELSE {EmptyStore})
    /\ arg = <<>>
    /\ derived = <<>>
    /\ Fresh

\* inference_pytorch, lines 173-178: the distributed branch raises
Reject ==
    /\ pc = "built"
    /\ distributed
    /\ pc' = "idle"
    /\ exit' = "NotImplementedError"
    /\ UNCHANGED <<cfgVars, storeVars, tmpVars, ann_file, report, stream, fd,
                   prog_bar, runs, invoked, written, calls, attempted,
                   preVars, editVars, parserVars>>

NextCfg ==
    \/ Plan
    \/ Build
    \/ Reject
    \/ Open
    \/ Skip
    \/ Compute
    \/ Fail
    \/ Close

SpecCfg == InitCfg /\ [][NextCfg]_vars

----------------------------------------------------------------------------
(* Two invocations whose manifests have the same base name *)

\* manifests of the other invocation
OtherManifests == {m \in Manifests : Len(m) <= MaxOtherLines}

\* lines 147-159 in another invocation of the pipeline, started with the same
\* convention on a manifest of the same base name (in another directory)
\* and a store file of its own, which exists: it writes its residual manifest
\* to the same /tmp/filtered_<basename>. Its later steps read that file and
\* write its own store only.
OtherPlan ==
    /\ \E m \in OtherManifests : \E s \in InitStores(dataset, m) :
          filtered' = Residual(m, s)
    /\ filteredExists' = TRUE
    /\ UNCHANGED <<cfgVars, storeVars, pc, ann_file, report, stream, fd,
                   prog_bar, exit, runs, invoked, written, calls, attempted,
                   preVars, editVars, parserVars>>

NextShared ==
    \/ Plan
    \/ Build
    \/ Open
    \/ Skip
    \/ Compute
    \/ Close
    \/ OtherPlan

SpecShared == Init /\ [][NextShared]_vars

----------------------------------------------------------------------------
(* The key parser on its own *)

\* values of --dataset, supported or not ('WebVid' is not 'webvid')
Names == Conventions \cup {"k400", "WebVid"}

\* "a.mp4", "b/clip1.mp4", "c.mp4"
Examples ==
    { <<"a", ".", "m", "p", "4">>,
      <<"b", "/", "c", "l", "i", "p", "1", ".", "m", "p", "4">>,
      <<"c", ".", "m", "p", "4">> }

\* every path of up to MaxPathLen characters over a letter, the dot and the
\* separator, and the paths above
KeyInputs ==
    UNION {[1..n -> {"a", ".", sep}] : n \in 0..MaxPathLen} \cup Examples \cup Paths

InitKey ==
    /\ dataset \in Names
    /\ arg \in KeyInputs
    /\ derived = <<>>
    /\ launcher = "none"
    /\ videos_per_gpu = 1
    /\ data_prefix = <<>>
    /\ ann = <<>>
    /\ fileExists = FALSE
    /\ disk = EmptyStore
    /\ Fresh

\* get_key_parser(dataset)(arg), lines 71-81
Derive ==
    /\ derived = <<>>
    /\ warning' = ParserWarning(dataset)
    /\ derived' = <<get_key_parser(dataset, arg)>>
    /\ UNCHANGED <<cfgVars, storeVars, tmpVars, pc, ann_file, report, stream, fd,
                   prog_bar, exit, runs, invoked, written, calls, attempted,
                   preVars, editVars, arg>>

NextKey == Derive

SpecKey == InitKey /\ [][NextKey]_vars

----------------------------------------------------------------------------
(* Helpers of the properties *)

\* the key each convention gives each path of the manifests
KeyTable == [d \in Conventions, p \in Paths |-> get_key_parser(d, p)]

\* the key the convention gives a manifest line: get_key_parser(dataset) on
\* the line's first token
KeyOf(l) == KeyTable[dataset, Token(l)]

\* no two lines of the manifest derive the same key
KeysDistinct == \A i, j \in 1..Len(ann) : KeyOf(ann[i]) = KeyOf(ann[j]) => i = j

\* the store holds an entry for the key of every manifest line
Complete(f) == \A i \in 1..Len(ann) : KeyOf(ann[i]) \in DOMAIN f

\* the position of line l in the manifest
IndexIn(l, m) == CHOOSE i \in 1..Len(m) : m[i] = l

----------------------------------------------------------------------------
(* C1. No overwrite: no step of any run, first or resumed, whatever the      *)
(* manifest and the store found at start, passes to create_dataset a key     *)
(* that is in the store at that moment; the store's refusal of an existing   *)
(* name is never raised; and the value under a key, on disk or through the   *)
(* open handle, is the same after every step that keeps the key.             *)
C1_NoOverwrite ==
    [][ /\ exit' # "ValueError"
        /\ Len(written') > Len(written) => ~Contains(fd, written'[Len(written')])
        /\ \A k \in DOMAIN disk \cap DOMAIN disk' : disk'[k] = disk[k]
        /\ pc = "loop" => \A k \in DOMAIN fd \cap DOMAIN fd' : fd'[k] = fd[k]
      ]_vars

\* a run over a store that already held an entry ended normally after it
\* both skipped an item whose key was present and created an entry
C1_Witness ==
    /\ pc = "idle"
    /\ exit = "ok"
    /\ preRun # EmptyStore
    /\ Len(written) >= 1
    /\ prog_bar.completed > Len(written)

----------------------------------------------------------------------------
(* C7. Residual work list: when the store file exists at planning time, the   *)
(* process is pointed at the residual manifest, whose lines are exactly the  *)
(* manifest lines whose key (of the first token, under the convention) is    *)
(* absent from the store as it was at plan time, each once and in manifest   *)
(* order; the dataset is built from those lines; the printed counts are       *)
(* (lines kept, lines in the manifest).                                       *)
C7_ResidualWorkList ==
    (pc \in {"planned", "built"} /\ fileExists) =>
        /\ ann_file = "filtered"
        /\ filteredExists
        /\ Range(filtered) = {l \in Range(ann) : KeyOf(l) \notin DOMAIN preRun}
        /\ \A i, j \in 1..Len(filtered) :
              i < j => IndexIn(filtered[i], ann) < IndexIn(filtered[j], ann)
        /\ report = <<Len(filtered), Len(ann)>>
        /\ pc = "built" => stream = [i \in 1..Len(filtered) |-> Filename(filtered[i])]

\* a resumed run whose dataset holds two of the three manifest lines
C7_Witness ==
    /\ pc = "built"
    /\ fileExists
    /\ Len(ann) = 3
    /\ Len(stream) = 2
    /\ report = <<2, 3>>

----------------------------------------------------------------------------
(* C8. First run: when no store file exists at planning time, the process    *)
(* keeps the configured manifest path, no residual manifest file has been    *)
(* written, and the dataset holds every line of the manifest, in order.       *)
C8_FirstRun ==
    (pc \in {"planned", "built"} /\ ~fileExists) =>
        /\ ann_file = "orig"
        /\ ~filteredExists
        /\ report = <<>>
        /\ pc = "built" => stream = [i \in 1..Len(ann) |-> Filename(ann[i])]

\* a first run whose dataset was built over a three-line manifest
C8_Witness ==
    /\ pc = "built"
    /\ ~fileExists
    /\ Len(ann) = 3
    /\ Len(stream) = 3

----------------------------------------------------------------------------
(* C3. Resume idempotence: in a run started right after a run that ended     *)
(* normally, with the store not edited in between, the residual work list is *)
(* empty, the model is never invoked, no entry is created, no error ends the *)
(* run, and the store keeps the keys and values it had when the run started. *)
C3_ResumeIdempotence ==
    (preExit = "ok" /\ deleted = {}) =>
        /\ ann_file = "filtered"
        /\ filtered = <<>>
        /\ report = <<0, Len(ann)>>
        /\ stream = <<>>
        /\ attempted = <<>>
        /\ written = <<>>
        /\ exit \in {"running", "ok", "killed"}
        /\ disk = preRun
        /\ pc = "loop" => fd = preRun

\* the second run over a three-line manifest, after a complete first run,
\* ended normally with an empty dataset
C3_Witness ==
    /\ pc = "idle"
    /\ exit = "ok"
    /\ preExit = "ok"
    /\ deleted = {}
    /\ Len(ann) = 3
    /\ Cardinality(DOMAIN disk) >= 2
    /\ prog_bar = [task_num |-> 0, completed |-> 0]

----------------------------------------------------------------------------
(* C9. Failure semantics: when the model raises on an item, the run ends     *)
(* there: the item and all later ones are still undelivered, nothing is      *)
(* stored under the item's key, and the store holds exactly the entries it   *)
(* had when the run started plus the results of the items computed before.   *)
(* In the run started next, no item whose key the store held is given to the *)
(* model, and the first item given to the model is the one that had failed.  *)
C9_FailureSemantics ==
    /\ (pc = "idle" /\ exit = "InferenceError") =>
          /\ stream # <<>>
          /\ attempted = Append(invoked, stream[1])
          /\ prog_bar.completed + Len(stream) = prog_bar.task_num
          /\ ~Contains(disk, key_parser(stream[1]))
          /\ DOMAIN disk = DOMAIN preRun \cup {key_parser(x) : x \in Range(invoked)}
          /\ \A k \in DOMAIN preRun : disk[k] = preRun[k]
          /\ \A x \in Range(invoked) : disk[key_parser(x)] = squeeze0(model(<<x>>))
    /\ preExit = "InferenceError" =>
          /\ \A x \in Range(attempted) : ~Contains(preRun, key_parser(x))
          /\ attempted # <<>> => attempted[1] = preFailed[1]
          /\ exit = "ok" => attempted # <<>>

\* the model raised on the second item of a run, and the next run, which
\* began with that item, ended normally
C9_Witness ==
    /\ pc = "idle"
    /\ exit = "ok"
    /\ preExit = "InferenceError"
    /\ preWritten >= 1
    /\ Len(invoked) >= 1
    /\ invoked[1] = preFailed[1]

----------------------------------------------------------------------------
(* C10. Selective recomputation.                                              *)

\* how many times the model returned a result for item x in this run
TimesInvoked(x) == Cardinality({i \in 1..Len(invoked) : invoked[i] = x})

\* line i is the first line of the manifest deriving its key
FirstOfKey(i) == \A j \in 1..(i - 1) : KeyOf(ann[j]) # KeyOf(ann[i])

\* the run that followed the removal of the entries `deleted` from a store
\* holding an entry for every manifest line has ended normally
RerunAfterDelete ==
    /\ pc = "idle"
    /\ exit = "ok"
    /\ deleted # {}
    /\ ~edited
    /\ Complete(snapshot)

\* every entry that was not removed is in the store with the value it had
Untouched ==
    \A k \in DOMAIN snapshot \ deleted : Contains(disk, k) /\ disk[k] = snapshot[k]

(* C10 as stated: after that run the model has been invoked exactly once for *)
(* each manifest item whose key was removed and for no other item, and the   *)
(* entries not removed are untouched.                                         *)
C10_AsStated ==
    RerunAfterDelete =>
        /\ \A i \in 1..Len(ann) :
              TimesInvoked(Filename(ann[i])) =
                  IF KeyOf(ann[i]) \in deleted THEN 1 ELSE 0
        /\ Untouched

(* C10 amended: after that run the model has been invoked exactly once for   *)
(* the first manifest item of each removed key and for no other item (a      *)
(* later item deriving the same key is skipped), the store is complete       *)
(* again, and at every moment from the removal on the entries not removed    *)
(* are untouched.                                                             *)
C10_SelectiveRecomputation ==
    /\ deleted # {} => Untouched
    /\ RerunAfterDelete =>
          /\ \A i \in 1..Len(ann) :
                TimesInvoked(Filename(ann[i])) =
                    IF KeyOf(ann[i]) \in deleted /\ FirstOfKey(i) THEN 1 ELSE 0
          /\ Len(invoked) = Cardinality(deleted \cap {KeyOf(l) : l \in Range(ann)})
          /\ Complete(disk)

\* one of three entries was removed and the rerun computed one item
C10_Witness ==
    /\ RerunAfterDelete
    /\ Cardinality(DOMAIN snapshot) = 3
    /\ Cardinality(deleted) = 1
    /\ Len(invoked) = 1
    /\ Cardinality(DOMAIN disk) = 3

----------------------------------------------------------------------------
(* C4. Per-put durability, as stated: once the writer has been killed, every *)
(* entry it had created is in the store file that a later process opens.     *)
C4_AsStated ==
    (pc = "idle" /\ exit = "killed") =>
        \A i \in 1..Len(written) : Contains(disk, written[i])

----------------------------------------------------------------------------
(* C5. Exactly-once computation, as stated, for a manifest whose lines       *)
(* derive distinct keys and a store the user never edited: over all runs,    *)
(* interrupted or not, the model computes a result for no item more than     *)
(* once, and when a run has ended normally it has computed exactly one for   *)
(* every item whose entry is not one found in the store at the start.        *)
C5_AsStated ==
    (KeysDistinct /\ removed = {}) =>
        /\ \A i \in 1..Len(ann) : calls[Filename(ann[i])] <= 1
        /\ (pc = "idle" /\ exit = "ok") =>
              \A i \in 1..Len(ann) :
                  disk[KeyOf(ann[i])] # OldResult => calls[Filename(ann[i])] = 1

----------------------------------------------------------------------------
(* C2. Partial-crash recoverability.                                          *)

\* the first line of the manifest deriving key k
FirstLine(k) == ann[CHOOSE i \in 1..Len(ann) : KeyOf(ann[i]) = k /\ FirstOfKey(i)]

\* the store one uninterrupted run builds from nothing
Uninterrupted ==
    [k \in {KeyOf(l) : l \in Range(ann)} |->
        squeeze0(model(<<Filename(FirstLine(k))>>))]

(* C2 as stated, for a manifest of M lines deriving distinct keys: when a    *)
(* run that started on an empty store was terminated, by a kill or by a      *)
(* model failure, after creating N entries, the run started next, once it    *)
(* has ended normally, has computed exactly M - N items and the store equals *)
(* the one an uninterrupted run builds.                                       *)
C2_AsStated ==
    ( /\ pc = "idle"
      /\ exit = "ok"
      /\ preExit \in {"killed", "InferenceError"}
      /\ prePreRun = EmptyStore
      /\ KeysDistinct
      /\ removed = {} ) =>
        /\ Len(invoked) = Len(ann) - preWritten
        /\ disk = Uninterrupted

----------------------------------------------------------------------------
(* C6. Eventual completeness: when the pipeline is run again after every     *)
(* interruption and the interruptions are finitely many, eventually a run    *)
(* has ended normally and the store holds an entry for the key of every      *)
(* manifest line.                                                             *)
C6_EventualCompleteness ==
    <>(pc = "idle" /\ exit = "ok" /\ Complete(disk))

\* a run ended normally with a complete store after an interrupted run
C6_Witness ==
    /\ pc = "idle"
    /\ exit = "ok"
    /\ preExit \in {"killed", "InferenceError"}
    /\ Len(ann) >= 2
    /\ Len(written) >= 1
    /\ Complete(disk)

----------------------------------------------------------------------------
(* C11. Order independence: when a run that started on an empty store has    *)
(* ended normally, the keys of the store are the keys of the manifest's set  *)
(* of lines, in whichever order the manifest lists them (so two manifests    *)
(* with the same lines in different orders end with the same keys); and in   *)
(* every run the entries are created in manifest order: of two entries, the  *)
(* one created first belongs to the line that comes first in the manifest.   *)
C11_OrderIndependence ==
    LET key == [i \in 1..Len(ann) |-> KeyTable[dataset, Token(ann[i])]]
        first(k) == CHOOSE i \in 1..Len(ann) :
                        key[i] = k /\ \A h \in 1..(i - 1) : key[h] # k
    IN  /\ (pc = "idle" /\ exit = "ok" /\ ~edited /\ preRun = EmptyStore) =>
              DOMAIN disk = {key[i] : i \in 1..Len(ann)}
        /\ \A b \in 2..Len(written) : first(written[b - 1]) < first(written[b])

\* a run over three lines on an empty store ended normally with three entries
C11_Witness ==
    /\ pc = "idle"
    /\ exit = "ok"
    /\ ~edited
    /\ preRun = EmptyStore
    /\ Len(ann) = 3
    /\ Len(written) = 3
    /\ Cardinality(DOMAIN disk) = 3

----------------------------------------------------------------------------
(* C12. Convention fallback: for every convention name other than 'webvid'   *)
(* and 'anetqa', the empty name included, get_key_parser prints a warning    *)
(* and the parser it returns gives, for every path, the default derivation:  *)
(* the base name without directory and extension. A parser is returned for   *)
(* every name: nothing is raised.                                             *)
C12_ConventionFallback ==
    (derived # <<>> /\ dataset \notin {"webvid", "anetqa"}) =>
        /\ warning # "none"
        /\ derived = <<splitext0(basename(arg))>>
        /\ exit = "none"

\* the unsupported name 'k400' gave the key of "b/clip1.mp4" and a warning
C12_Witness ==
    /\ dataset = "k400"
    /\ arg = <<"b", "/", "c", "l", "i", "p", "1", ".", "m", "p", "4">>
    /\ derived = << <<"c", "l", "i", "p", "1">> >>
    /\ warning = "not supported"

----------------------------------------------------------------------------
(* C15. Key derivation per convention.                                        *)

\* the last of the segments the separator divides a path into
LastSegment(f) == split(f)[Len(split(f))]

\* the last two segments of a path (the only one, when it has one) joined by
\* the separator
LastTwoSegments(f) ==
    LET parts == split(f)
        n == Len(parts)
    IN  IF n = 1 THEN parts[1] ELSE parts[n - 1] \o <<sep>> \o parts[n]

(* C15. For every path: the default convention returns the last path segment *)
(* with its extension removed; 'webvid' returns the last two segments of the *)
(* extension-stripped path joined by the separator; 'anetqa' returns the     *)
(* extension-stripped base name without its first two characters. The paths  *)
(* a.mp4, b/clip1.mp4, c.mp4 give a, clip1, c under the default convention.  *)
C15_KeyDerivation ==
    derived # <<>> =>
        /\ dataset = "" => derived[1] = splitext0(LastSegment(arg))
        /\ dataset = "webvid" => derived[1] = LastTwoSegments(splitext0(arg))
        /\ dataset = "anetqa" =>
              /\ Len(derived[1]) = Len(splitext0(LastSegment(arg))) - 2
                    \/ (derived[1] = <<>> /\ Len(splitext0(LastSegment(arg))) <= 2)
              /\ \A i \in 1..Len(derived[1]) :
                    derived[1][i] = splitext0(LastSegment(arg))[i + 2]
        /\ (dataset = "" /\ arg = <<"a", ".", "m", "p", "4">>) =>
              derived[1] = <<"a">>
        /\ (dataset = "" /\ arg = <<"b", "/", "c", "l", "i", "p", "1", ".", "m", "p", "4">>) =>
              derived[1] = <<"c", "l", "i", "p", "1">>
        /\ (dataset = "" /\ arg = <<"c", ".", "m", "p", "4">>) =>
              derived[1] = <<"c">>

\* 'webvid' gave "b/clip1" for "b/clip1.mp4"
C15_Witness ==
    /\ dataset = "webvid"
    /\ arg = <<"b", "/", "c", "l", "i", "p", "1", ".", "m", "p", "4">>
    /\ derived = << <<"b", "/", "c", "l", "i", "p", "1">> >>

----------------------------------------------------------------------------
(* C13. Manifest configuration errors fail fast, as stated, for a manifest   *)
(* file with no lines: on a first run as on a resumed one the process never  *)
(* gets to open the store for writing and never ends normally.               *)
C13_AsStated ==
    ann = <<>> =>
        /\ pc # "loop"
        /\ exit # "ok"

----------------------------------------------------------------------------
(* C19. Key collision is first-writer-wins and silent: when two lines of the *)
(* manifest derive the same key, then over all runs, interrupted or not, and *)
(* whatever the user removes in between, the model is never invoked on the   *)
(* later line's item, the store's refusal of an existing name never ends a   *)
(* run, the entry under the key, unless it is one found in the store at the  *)
(* start, holds the result of the first line's item, and the entry is there  *)
(* whenever a run has ended normally.                                         *)
C19_FirstWriterWins ==
    LET key == [i \in 1..Len(ann) |-> KeyTable[dataset, Token(ann[i])]]
    IN  \A j \in 2..Len(ann) : \A i \in 1..(j - 1) :
            (key[i] = key[j] /\ \A h \in 1..(i - 1) : key[h] # key[i]) =>
                /\ calls[Filename(ann[j])] = 0
                /\ Filename(ann[j]) \notin Range(attempted)
                /\ exit # "ValueError"
                /\ \A f \in {disk, fd} :
                      (Contains(f, key[i]) /\ f[key[i]] # OldResult) =>
                          f[key[i]] = squeeze0(model(<<Filename(ann[i])>>))
                /\ (pc = "idle" /\ exit = "ok" /\ ~edited) => Contains(disk, key[i])

\* a run over three lines deriving one key ended normally: one item was
\* computed, two were skipped, and the store holds one entry
C19_Witness ==
    /\ pc = "idle"
    /\ exit = "ok"
    /\ Len(ann) = 3
    /\ Cardinality({KeyOf(l) : l \in Range(ann)}) = 1
    /\ Len(invoked) = 1
    /\ prog_bar.completed = 3
    /\ DOMAIN disk = {KeyOf(ann[1])}
    /\ disk[KeyOf(ann[1])] = squeeze0(model(<<Filename(ann[1])>>))

----------------------------------------------------------------------------
(* C14. Batch of one, as stated: under every configuration each model call   *)
(* is made on one item, so every computed item has one entry of its own:     *)
(* the run has created as many entries as the model returned item results,   *)
(* and every stored result has had its batch dimension removed.               *)
C14_AsStated ==
    /\ Len(invoked) = Len(written)
    /\ \A k \in DOMAIN fd : fd[k].rows = 0

----------------------------------------------------------------------------
(* C17. Progress accounting, as stated: in the loop the indicator equals the *)
(* number of items of the stream traversed so far, and when the run has      *)
(* ended normally it equals the length of the dataset it was sized with.     *)
C17_AsStated ==
    /\ pc = "loop" => prog_bar.completed = prog_bar.task_num - Len(stream)
    /\ (pc = "idle" /\ exit = "ok") => prog_bar.completed = prog_bar.task_num

----------------------------------------------------------------------------
(* C18. Distributed mode is rejected: under every launcher other than 'none' *)
(* no step creates or changes the store file, invokes the model or enters    *)
(* the extraction loop, and the step that follows the building of the        *)
(* dataset ends the process with the not-implemented error.                   *)
C18_DistributedRejected ==
    [][ launcher # "none" =>
          /\ UNCHANGED <<fileExists, disk>>
          /\ attempted' = <<>>
          /\ calls' = calls
          /\ pc' # "loop"
          /\ exit' \in {"running", "NotImplementedError"}
          /\ pc = "built" => (pc' = "idle" /\ exit' = "NotImplementedError")
      ]_vars

\* under launcher 'slurm', a process resuming on a store with an entry built
\* a dataset of two items and ended with the not-implemented error
C18_Witness ==
    /\ launcher = "slurm"
    /\ pc = "idle"
    /\ exit = "NotImplementedError"
    /\ fileExists
    /\ disk # EmptyStore
    /\ Len(stream) = 2

----------------------------------------------------------------------------
(* C20. Planner/loop key agreement, as stated: on a resumed run, for every   *)
(* line of the residual manifest the key the planner derived from the line's *)
(* first token is the key the loop derives from the filename of the item,    *)
(* and no item of the stream has a key the store held at plan time.          *)
C20_AsStated ==
    (pc = "built" /\ ann_file = "filtered") =>
        \A i \in 1..Len(filtered) :
            /\ key_parser(Token(filtered[i])) = key_parser(stream[i])
            /\ ~Contains(preRun, key_parser(stream[i]))

----------------------------------------------------------------------------
(* C16. Residual manifest is private, as stated: whatever other invocations  *)
(* do in the meantime, the dataset of a resumed invocation holds the lines   *)
(* of its own manifest whose keys were absent from its own store at the time *)
(* it planned.                                                                *)
C16_AsStated ==
    (pc = "built" /\ ann_file = "filtered") =>
        stream = build_dataset(Residual(ann, preRun))

====
